---- MODULE Spec2Model ----
(***************************************************************************)
(* Model of deploy_pipeline/pipeline/config.py: the Pipeline aggregate     *)
(* (phases, jobs per phase, job-name cache) and the Stage expander.        *)
(*                                                                         *)
(* A Job object is the record [id, name, phase]; id is the identity of     *)
(* the Python object (two Job objects may carry the same name and phase).  *)
(* The defaultdict _job_phase is an insertion-ordered dict: a sequence of  *)
(* [key, jobs] entries in key-insertion order.                             *)
(* Every generator is consumed to the end by the action that calls it,     *)
(* except in SpecEnum, where get_stage_jobs() is consumed element by       *)
(* element with add_phase and add_job calls in between.                   *)
(*                                                                         *)
(* Spec       Pipeline and Stage operations in any order                   *)
(* SpecJob    Job(...) with empty and blank names, then add_job            *)
(* SpecLoad   load_pipeline_from_config over bounded configs               *)
(* SpecNames  Stage over str ordering groups                               *)
(* SpecEnum   a get_stage_jobs() generator advanced step by step           *)
(* SpecView   the caller keeps and appends to its order_groups list        *)
(***************************************************************************)
EXTENDS Integers, Sequences, FiniteSets, TLC

\* ---- bounds of the model ------------------------------------------------
MaxJobObjects == 3      \* Job objects handed to add_job in one behaviour
MaxGroups == 2          \* length of the order_groups list given to a Stage
MaxConfigPhases == 2    \* length of pipeline_config['phases']
MaxConfigJobs == 2      \* entries of pipeline_config['jobs']
MaxEnumJobs == 2        \* Job objects built in a behaviour of SpecEnum, SpecView

PhaseNames == {"partition", "changebroker"}
JobNames == {"a", "b"}
GroupValues == {0, 1}      \* the ordering groups a caller may pass

VARIABLES phases, job_name_cache, job_phase, added, next_id, stage, last,
          gen, caller

\* gen: the get_stage_jobs() generator being consumed step by step
\* caller: the order_groups list the caller of Stage(...) keeps
aux == <<gen, caller>>

vars == <<phases, job_name_cache, job_phase, added, next_id, stage, last,
          aux>>

\* ---- helpers ------------------------------------------------------------
Range(s) == {s[i] : i \in 1..Len(s)}

\* `x in list`
Contains(s, x) == \E i \in 1..Len(s) : s[i] = x

NoDuplicates(s) == \A i, j \in 1..Len(s) : i # j => s[i] # s[j]

SeqsUpTo(S, n) == UNION {[1..k -> S] : k \in 0..n}

NoJob == [id |-> 0, name |-> "", phase |-> ""]

\* ---- Job ----------------------------------------------------------------
Job(job_id, job_name, phase_name) ==
    [id |-> job_id, name |-> job_name, phase |-> phase_name]

\* Job.__init__: `not job_name` is true of the empty string only
job_init_raises(job_name) ==
    IF Len(job_name) = 0 THEN "JobException" ELSE "None"

\* ---- the defaultdict(list) _job_phase -----------------------------------
HasKey(d, k) == \E i \in 1..Len(d) : d[i].key = k

KeyIndex(d, k) == CHOOSE i \in 1..Len(d) : d[i].key = k

\* d[k] on a defaultdict(list): a missing key is inserted with an empty list
dd_touch(d, k) ==
    IF HasKey(d, k) THEN d ELSE Append(d, [key |-> k, jobs |-> <<>>])

\* the list that d[k] evaluates to
dd_value(d, k) == IF HasKey(d, k) THEN d[KeyIndex(d, k)].jobs ELSE <<>>

\* every key shares one list object: the append shows under every key
dd_append_shared_list(d, k, job) ==
    LET t == dd_touch(d, k)
    IN  [i \in 1..Len(t) |-> [t[i] EXCEPT !.jobs = Append(@, job)]]

\* d[k].append(job)
dd_append(d, k, job) ==
    LET t == dd_touch(d, k)
    IN  [i \in 1..Len(t) |->
            IF t[i].key = k THEN [t[i] EXCEPT !.jobs = Append(@, job)]
            ELSE t[i]]

\* ---- Pipeline.add_phase -------------------------------------------------
\* The raise statement formats its message with `phase.name`; no name
\* `phase` is bound in add_phase or at module level, so evaluating the
\* message raises NameError before DuplicatePhaseException is constructed.
add_phase_raises(phs, phase_name) ==
    IF Contains(phs, phase_name) THEN "NameError" ELSE "None"

\* the new phase is put in front of the list
add_phase_phases_in_front(phs, phase_name) ==
    IF add_phase_raises(phs, phase_name) = "None"
    THEN <<phase_name>> \o phs ELSE phs

add_phase_phases(phs, phase_name) ==
    IF add_phase_raises(phs, phase_name) = "None"
    THEN Append(phs, phase_name) ELSE phs

\* ---- Pipeline.add_job ---------------------------------------------------
\* add_job without the phase check
add_job_raises_no_phase_check(cache, phs, job) ==
    IF job.name \in cache THEN "JobException" ELSE "None"

\* add_job without the name check
add_job_raises_no_name_check(cache, phs, job) ==
    IF ~Contains(phs, job.phase) THEN "InvalidPhaseException" ELSE "None"

add_job_raises(cache, phs, job) ==
    IF job.name \in cache THEN "JobException"
    ELSE IF ~Contains(phs, job.phase) THEN "InvalidPhaseException"
    ELSE "None"

\* the name is recorded before the phase is checked
add_job_cache_before_phase_check(cache, phs, job) == cache \cup {job.name}

\* the name is never recorded
add_job_cache_not_recorded(cache, phs, job) == cache

add_job_cache(cache, phs, job) ==
    IF add_job_raises(cache, phs, job) = "None"
    THEN cache \cup {job.name} ELSE cache

\* the job is stored before its name is checked
add_job_job_phase_store_first(d, cache, phs, job) ==
    IF Contains(phs, job.phase) THEN dd_append(d, job.phase, job) ELSE d

add_job_job_phase(d, cache, phs, job) ==
    IF add_job_raises(cache, phs, job) = "None"
    THEN dd_append(d, job.phase, job) ELSE d

\* ---- Pipeline.get_jobs_by_phase / get_jobs / get_phases -----------------
\* the jobs of the first phase that got a job, whatever phase is asked for
get_jobs_by_phase_first_key(d, phase_name) ==
    IF d = <<>> THEN <<>> ELSE Head(d).jobs

get_jobs_by_phase(d, phase_name) == dd_value(d, phase_name)

\* the lookup hands out the list and leaves a fresh empty one under the key
get_jobs_by_phase_effect_reset(d, phase_name) ==
    LET t == dd_touch(d, phase_name)
    IN  [i \in 1..Len(t) |->
            IF t[i].key = phase_name THEN [t[i] EXCEPT !.jobs = <<>>]
            ELSE t[i]]

get_jobs_by_phase_effect(d, phase_name) == dd_touch(d, phase_name)

\* a plain dict in place of the defaultdict: a missing key raises
get_jobs_by_phase_raises_plain_dict(d, phase_name) ==
    IF HasKey(d, phase_name) THEN "None" ELSE "KeyError"

\* indexing a defaultdict never raises, whatever the key
get_jobs_by_phase_raises(d, phase_name) == "None"

RECURSIVE get_jobs(_)
get_jobs(d) ==
    IF d = <<>> THEN <<>> ELSE Head(d).jobs \o get_jobs(Tail(d))

get_phases(phs) == phs

\* ---- Python values: an ordering group is an int or a str ----------------
\* ToString prints a string value in quotes and an integer in digits
IsStr(v) == SubSeq(ToString(v), 1, 1) = "\""

\* str(v), as an f-string formats v: a str as it is, an int in decimal
py_str(v) == IF IsStr(v) THEN v ELSE ToString(v)

\* ord(c) of the characters the model's strings are made of
ord(c) ==
    CASE c = " " -> 32 [] c = "-" -> 45 [] c = "0" -> 48 [] c = "1" -> 49
      [] c = "2" -> 50 [] c = "a" -> 97 [] c = "b" -> 98 [] c = "c" -> 99

\* a < b on str: lexicographic by code point, a proper prefix is smaller
RECURSIVE str_less(_, _)
str_less(a, b) ==
    IF Len(b) = 0 THEN FALSE
    ELSE IF Len(a) = 0 THEN TRUE
    ELSE IF Head(a) # Head(b) THEN ord(Head(a)) < ord(Head(b))
    ELSE str_less(Tail(a), Tail(b))

\* x < y as sorted() evaluates it on a list of one type
py_less(x, y) == IF IsStr(x) THEN str_less(x, y) ELSE x < y

\* ---- Stage --------------------------------------------------------------
\* sorted(order_groups, reverse=reverse): a stable sort into a new list
RECURSIVE sorted_insert(_, _, _)
sorted_insert(s, x, reverse) ==
    IF s = <<>> THEN <<x>>
    ELSE IF (IF reverse THEN py_less(Head(s), x) ELSE py_less(x, Head(s)))
         THEN <<x>> \o s
         ELSE <<Head(s)>> \o sorted_insert(Tail(s), x, reverse)

RECURSIVE sorted(_, _)
sorted(order_groups, reverse) ==
    IF order_groups = <<>> THEN <<>>
    ELSE sorted_insert(sorted(SubSeq(order_groups, 1, Len(order_groups) - 1),
                              reverse),
                       order_groups[Len(order_groups)], reverse)

Stage(order_groups, reverse) ==
    [made |-> TRUE, given |-> order_groups, reverse |-> reverse,
     order_groups |-> sorted(order_groups, reverse)]

\* f'{stage}-{phase_name}'
stage_name(group, phase_name) == py_str(group) \o "-" \o phase_name

\* the loops exchanged: the phases as the outer loop
RECURSIVE product_phases_outer(_, _)
product_phases_outer(groups, phs) ==
    IF phs = <<>> THEN <<>>
    ELSE [i \in 1..Len(groups) |-> <<groups[i], Head(phs)>>]
         \o product_phases_outer(groups, Tail(phs))

\* itertools.product(groups, phs): the first argument is the outer loop
RECURSIVE product(_, _)
product(groups, phs) ==
    IF groups = <<>> THEN <<>>
    ELSE [j \in 1..Len(phs) |-> <<Head(groups), phs[j]>>]
         \o product(Tail(groups), phs)

\* Stage._get_stages: (stage, phase_name, composed name) per pair
get_stages_triples(st, phs) ==
    LET pairs == product(st.order_groups, get_phases(phs))
    IN  [k \in 1..Len(pairs) |->
            <<pairs[k][1], pairs[k][2], stage_name(pairs[k][1], pairs[k][2])>>]

\* Stage.get_stages
get_stages(st, phs) ==
    LET triples == get_stages_triples(st, phs)
    IN  [k \in 1..Len(triples) |-> triples[k][3]]

\* Stage.get_stage_jobs: the tuples yielded
RECURSIVE stage_jobs_of(_, _)
stage_jobs_of(triples, d) ==
    IF triples = <<>> THEN <<>>
    ELSE LET t == Head(triples)
             jobs == get_jobs_by_phase(d, t[2])
         IN  [i \in 1..Len(jobs) |-> <<t[1], t[2], t[3], jobs[i]>>]
             \o stage_jobs_of(Tail(triples),
                              get_jobs_by_phase_effect(d, t[2]))

get_stage_jobs(st, phs, d) == stage_jobs_of(get_stages_triples(st, phs), d)

\* Stage.get_stage_jobs: _job_phase after every get_jobs_by_phase call made
RECURSIVE stage_jobs_effect_of(_, _)
stage_jobs_effect_of(triples, d) ==
    IF triples = <<>> THEN d
    ELSE stage_jobs_effect_of(Tail(triples),
                              get_jobs_by_phase_effect(d, Head(triples)[2]))

get_stage_jobs_effect(st, phs, d) ==
    stage_jobs_effect_of(get_stages_triples(st, phs), d)

\* ---- state machine ------------------------------------------------------
NoStage == [made |-> FALSE, given |-> <<>>, reverse |-> FALSE,
            order_groups |-> <<>>]

\* no generator has been created
NoGen == [state |-> "none"]

\* the caller holds no list of its own
NoCaller == [groups |-> <<>>, phases_then |-> 0]

Result(o, ph, j, e, out) ==
    [op |-> o, phase |-> ph, job |-> j, err |-> e, out |-> out]

Init ==
    /\ phases = <<>>
    /\ job_name_cache = {}
    /\ job_phase = <<>>
    /\ added = {}
    /\ next_id = 1
    /\ stage = NoStage
    /\ last = Result("new", "", NoJob, "None", <<>>)
    /\ gen = NoGen
    /\ caller = NoCaller

AddPhase(phase_name) ==
    /\ phases' = add_phase_phases(phases, phase_name)
    /\ last' = Result("add_phase", phase_name, NoJob,
                      add_phase_raises(phases, phase_name), <<>>)
    /\ UNCHANGED <<job_name_cache, job_phase, added, next_id, stage, aux>>

AddJob(job_name, phase_name) ==
    /\ next_id <= MaxJobObjects
    /\ LET job == Job(next_id, job_name, phase_name)
           err == add_job_raises(job_name_cache, phases, job)
       IN  /\ job_name_cache' = add_job_cache(job_name_cache, phases, job)
           /\ job_phase' = add_job_job_phase(job_phase, job_name_cache,
                                             phases, job)
           /\ added' = IF err = "None" THEN added \cup {job} ELSE added
           /\ last' = Result("add_job", "", job, err, <<>>)
    /\ next_id' = next_id + 1
    /\ UNCHANGED <<phases, stage, aux>>

GetJobsByPhase(phase_name) ==
    /\ job_phase' = get_jobs_by_phase_effect(job_phase, phase_name)
    /\ last' = Result("get_jobs_by_phase", phase_name, NoJob,
                      get_jobs_by_phase_raises(job_phase, phase_name),
                      get_jobs_by_phase(job_phase, phase_name))
    /\ UNCHANGED <<phases, job_name_cache, added, next_id, stage, aux>>

GetJobs ==
    /\ last' = Result("get_jobs", "", NoJob, "None", get_jobs(job_phase))
    /\ UNCHANGED <<phases, job_name_cache, job_phase, added, next_id, stage,
                   aux>>

GetPhases ==
    /\ last' = Result("get_phases", "", NoJob, "None", get_phases(phases))
    /\ UNCHANGED <<phases, job_name_cache, job_phase, added, next_id, stage,
                   aux>>

NewStage(order_groups, reverse) ==
    /\ stage' = Stage(order_groups, reverse)
    /\ last' = Result("new_stage", "", NoJob, "None", <<>>)
    /\ UNCHANGED <<phases, job_name_cache, job_phase, added, next_id, aux>>

GetStages ==
    /\ stage.made
    /\ last' = Result("get_stages", "", NoJob, "None",
                      get_stages(stage, phases))
    /\ UNCHANGED <<phases, job_name_cache, job_phase, added, next_id, stage,
                   aux>>

GetStageJobs ==
    /\ stage.made
    /\ job_phase' = get_stage_jobs_effect(stage, phases, job_phase)
    /\ last' = Result("get_stage_jobs", "", NoJob, "None",
                      get_stage_jobs(stage, phases, job_phase))
    /\ UNCHANGED <<phases, job_name_cache, added, next_id, stage, aux>>

Next ==
    \/ \E n \in PhaseNames : AddPhase(n)
    \/ \E n \in JobNames, p \in PhaseNames : AddJob(n, p)
    \/ \E p \in PhaseNames : GetJobsByPhase(p)
    \/ GetJobs
    \/ GetPhases
    \/ \E g \in SeqsUpTo(GroupValues, MaxGroups), r \in BOOLEAN : NewStage(g, r)
    \/ GetStages
    \/ GetStageJobs

Spec == Init /\ [][Next]_vars

\* ---- Job construction apart from add_job --------------------------------
\* the names a caller may pass to Job(...): empty, blank and ordinary ones
CtorNames == {"", " "} \cup JobNames

\* Job(job_name, phase_name); the arguments are kept in last.out
NewJob(job_name, phase_name) ==
    /\ next_id <= MaxJobObjects
    /\ LET err == job_init_raises(job_name)
       IN  last' = Result("new_job", "",
                          IF err = "None"
                          THEN Job(next_id, job_name, phase_name) ELSE NoJob,
                          err, <<job_name, phase_name>>)
    /\ next_id' = next_id + 1
    /\ UNCHANGED <<phases, job_name_cache, job_phase, added, stage, aux>>

\* add_job of the Job object just constructed
AddNewJob ==
    /\ last.op = "new_job"
    /\ last.err = "None"
    /\ LET job == last.job
           err == add_job_raises(job_name_cache, phases, job)
       IN  /\ job_name_cache' = add_job_cache(job_name_cache, phases, job)
           /\ job_phase' = add_job_job_phase(job_phase, job_name_cache,
                                             phases, job)
           /\ added' = IF err = "None" THEN added \cup {job} ELSE added
           /\ last' = Result("add_job", "", job, err, <<>>)
    /\ UNCHANGED <<phases, next_id, stage, aux>>

NextJob ==
    \/ \E n \in PhaseNames : AddPhase(n)
    \/ \E n \in CtorNames, p \in PhaseNames : NewJob(n, p)
    \/ AddNewJob
    \/ GetJobs

SpecJob == Init /\ [][NextJob]_vars

\* ---- C12 ----------------------------------------------------------------
\* str.strip() leaves nothing: the name is empty or spaces only
RECURSIVE IsBlank(_)
IsBlank(name) ==
    Len(name) = 0 \/ (Head(name) = " " /\ IsBlank(Tail(name)))

\* C12: Job(name, phase) fails with JobException whenever the name is empty
\* or blank, so no job with an empty or blank name is ever registered.
C12_BlankNameRejected ==
    /\ (last.op = "new_job" /\ IsBlank(last.out[1]))
          => last.err = "JobException"
    /\ \A j \in added : ~IsBlank(j.name)

\* ---- load_pipeline_from_config ------------------------------------------
\* with_full_path: os.path.exists(path) is an input of the model
with_full_path_raises(path_exists) ==
    IF ~path_exists THEN "InvalidJobTemplateException" ELSE "None"

\* the loop over pipeline_config['phases']; stops at the first exception
RECURSIVE load_phases(_, _)
load_phases(todo, phs) ==
    IF todo = <<>> THEN [err |-> "None", phases |-> phs]
    ELSE IF add_phase_raises(phs, Head(todo)) # "None"
    THEN [err |-> add_phase_raises(phs, Head(todo)), phases |-> phs]
    ELSE load_phases(Tail(todo), add_phase_phases(phs, Head(todo)))

\* the loop over pipeline_config['jobs'].items(); the k-th Job object built
\* has id k; stops at the first exception
RECURSIVE load_jobs(_, _, _, _, _)
load_jobs(todo, k, phs, cache, d) ==
    IF todo = <<>> THEN [err |-> "None", cache |-> cache, job_phase |-> d]
    ELSE LET job == Job(k, Head(todo).name, Head(todo).phase)
         IN  IF job_init_raises(Head(todo).name) # "None"
             THEN [err |-> job_init_raises(Head(todo).name),
                   cache |-> cache, job_phase |-> d]
             ELSE IF add_job_raises(cache, phs, job) # "None"
             THEN [err |-> add_job_raises(cache, phs, job),
                   cache |-> cache, job_phase |-> d]
             ELSE load_jobs(Tail(todo), k + 1, phs,
                            add_job_cache(cache, phs, job),
                            add_job_job_phase(d, cache, phs, job))

\* what the call raises and the pipeline it returns (empty when it raises)
load_pipeline_from_config(cfg) ==
    LET none == [phases |-> <<>>, cache |-> {}, job_phase |-> <<>>]
        e0 == with_full_path_raises(cfg.template_exists)
        P == load_phases(cfg.phases, <<>>)
        J == load_jobs(cfg.jobs, 1, P.phases, {}, <<>>)
    IN  IF e0 # "None" THEN [err |-> e0, pipeline |-> none]
        ELSE IF P.err # "None" THEN [err |-> P.err, pipeline |-> none]
        ELSE IF J.err # "None" THEN [err |-> J.err, pipeline |-> none]
        ELSE [err |-> "None",
              pipeline |-> [phases |-> P.phases, cache |-> J.cache,
                            job_phase |-> J.job_phase]]

\* the jobs mapping of a config: a dict, so no name is a key twice
ConfigJobs ==
    {js \in SeqsUpTo([name : CtorNames, phase : PhaseNames], MaxConfigJobs) :
        \A i, j \in 1..Len(js) : i # j => js[i].name # js[j].name}

Configs ==
    [template_exists : BOOLEAN,
     phases : SeqsUpTo(PhaseNames, MaxConfigPhases),
     jobs : ConfigJobs]

\* pipeline = load_pipeline_from_config(cfg), called once in a behaviour; the
\* config is kept in last.out
Load(cfg) ==
    LET r == load_pipeline_from_config(cfg)
    IN  /\ last.op = "new"
        /\ phases' = r.pipeline.phases
        /\ job_name_cache' = r.pipeline.cache
        /\ job_phase' = r.pipeline.job_phase
        /\ added' = Range(get_jobs(r.pipeline.job_phase))
        /\ last' = Result("load", "", NoJob, r.err, <<cfg>>)
        /\ UNCHANGED <<next_id, stage, aux>>

NextLoad == \E cfg \in Configs : Load(cfg)

SpecLoad == Init /\ [][NextLoad]_vars

\* ---- C15 ----------------------------------------------------------------
\* the error kind of the first step that fails, as the claim lists them
FirstFailingStep(cfg) ==
    IF ~cfg.template_exists THEN "InvalidJobTemplateException"
    ELSE IF ~NoDuplicates(cfg.phases) THEN "DuplicatePhaseException"
    ELSE IF \E i \in 1..Len(cfg.jobs) :
                cfg.jobs[i].name = "" \/ ~Contains(cfg.phases, cfg.jobs[i].phase)
    THEN LET i == CHOOSE i \in 1..Len(cfg.jobs) :
                    /\ \/ cfg.jobs[i].name = ""
                       \/ ~Contains(cfg.phases, cfg.jobs[i].phase)
                    /\ \A k \in 1..(i - 1) :
                          /\ cfg.jobs[k].name # ""
                          /\ Contains(cfg.phases, cfg.jobs[k].phase)
         IN  IF cfg.jobs[i].name = "" THEN "JobException"
             ELSE "InvalidPhaseException"
    ELSE "None"

\* the configured job names of a phase, in config order
RECURSIVE ConfiguredNames(_, _)
ConfiguredNames(js, p) ==
    IF js = <<>> THEN <<>>
    ELSE (IF Head(js).phase = p THEN <<Head(js).name>> ELSE <<>>)
         \o ConfiguredNames(Tail(js), p)

\* C15: the template is resolved first, then the phases are registered in
\* config order, then the jobs; a valid config returns a pipeline with the
\* configured phases and, per phase, the configured jobs in config order;
\* otherwise the error of the first failing step (InvalidTemplate,
\* DuplicatePhase, EmptyName, InvalidPhase) propagates and nothing is
\* returned.
C15_LoadInOrder ==
    last.op = "load"
        => LET cfg == last.out[1]
               e == FirstFailingStep(cfg)
           IN  /\ last.err = e
               /\ e = "None"
                    => /\ get_phases(phases) = cfg.phases
                       /\ \A p \in PhaseNames :
                             LET jobs == get_jobs_by_phase(job_phase, p)
                             IN  [i \in 1..Len(jobs) |-> jobs[i].name]
                                    = ConfiguredNames(cfg.jobs, p)
               /\ e # "None" => (phases = <<>> /\ job_phase = <<>>)

\* ---- Stage over str ordering groups -------------------------------------
\* ordering groups and phase names that are strings with a "-" in them
StrGroupValues == {"1", "1-a"}
DashPhaseNames == {"b", "a-b"}

NextNames ==
    \/ \E n \in DashPhaseNames : AddPhase(n)
    \/ \E g \in SeqsUpTo(StrGroupValues, MaxGroups), r \in BOOLEAN :
          NewStage(g, r)
    \/ GetStages

SpecNames == Init /\ [][NextNames]_vars

\* ---- C17 ----------------------------------------------------------------
\* C17: for pairwise distinct ordering groups the names get_stages() yields
\* are pairwise distinct.
C17_DistinctStageNames ==
    (last.op = "get_stages" /\ NoDuplicates(stage.given))
        => NoDuplicates(last.out)

\* ---- get_stage_jobs() consumed one element at a time --------------------
\* gen.pairs   the triples product() took when the first element was asked
\* gen.k, i    the pair being iterated and the jobs of it yielded so far
\* gen.out     what was yielded, each item with the index of its pair
\* gen.closed  for every pair whose job iteration has finished, the id the
\*             next Job object would get at that moment
\* gen.phases_then  the declared phases when the first element was asked

\* the loop drops the last job of every list
RECURSIVE enum_scan_drops_last(_, _, _, _, _, _)
enum_scan_drops_last(pairs, k, i, d, closed, nid) ==
    IF k > Len(pairs)
    THEN [yields |-> FALSE, k |-> k, i |-> 0, job_phase |-> d,
          closed |-> closed]
    ELSE LET d1 == get_jobs_by_phase_effect(d, pairs[k][2])
             jobs == get_jobs_by_phase(d1, pairs[k][2])
         IN  IF i + 1 < Len(jobs)
             THEN [yields |-> TRUE, k |-> k, i |-> i + 1, job_phase |-> d1,
                   closed |-> closed]
             ELSE enum_scan_drops_last(pairs, k + 1, 0, d1,
                                       Append(closed, nid), nid)

\* one next() on the generator, resumed in pair k after i of its jobs: the
\* inner loop yields the next job of the live list of the phase, or the list
\* is at its end, the pair is finished and the outer loop enters the next
\* pair, whose get_jobs_by_phase call indexes _job_phase
RECURSIVE enum_scan(_, _, _, _, _, _)
enum_scan(pairs, k, i, d, closed, nid) ==
    IF k > Len(pairs)
    THEN [yields |-> FALSE, k |-> k, i |-> 0, job_phase |-> d,
          closed |-> closed]
    ELSE LET d1 == get_jobs_by_phase_effect(d, pairs[k][2])
             jobs == get_jobs_by_phase(d1, pairs[k][2])
         IN  IF i < Len(jobs)
             THEN [yields |-> TRUE, k |-> k, i |-> i + 1, job_phase |-> d1,
                   closed |-> closed]
             ELSE enum_scan(pairs, k + 1, 0, d1, Append(closed, nid), nid)

\* g = stage.get_stage_jobs(): no line of the generator has run yet
EnumCreate ==
    /\ stage.made
    /\ gen.state = "none"
    /\ gen' = [state |-> "created", pairs |-> <<>>, k |-> 1, i |-> 0,
               out |-> <<>>, closed |-> <<>>, phases_then |-> <<>>]
    /\ last' = Result("get_stage_jobs()", "", NoJob, "None", <<>>)
    /\ UNCHANGED <<phases, job_name_cache, job_phase, added, next_id, stage,
                   caller>>

\* next(g)
EnumNext ==
    /\ gen.state \in {"created", "running"}
    /\ LET first == gen.state = "created"
           pairs == IF first THEN get_stages_triples(stage, phases)
                    ELSE gen.pairs
           r == enum_scan(pairs, gen.k, gen.i, job_phase, gen.closed,
                          next_id)
           t == pairs[r.k]
           job == get_jobs_by_phase(r.job_phase, t[2])[r.i]
           item == <<t[1], t[2], t[3], job>>
       IN  /\ job_phase' = r.job_phase
           /\ gen' = [state |-> IF r.yields THEN "running" ELSE "done",
                      pairs |-> pairs, k |-> r.k, i |-> r.i,
                      out |-> IF r.yields
                              THEN Append(gen.out,
                                          [pair |-> r.k, item |-> item])
                              ELSE gen.out,
                      closed |-> r.closed,
                      phases_then |-> IF first THEN phases
                                      ELSE gen.phases_then]
           /\ last' = Result("next", "", NoJob,
                             IF r.yields THEN "None" ELSE "StopIteration",
                             IF r.yields THEN <<item>> ELSE <<>>)
    /\ UNCHANGED <<phases, job_name_cache, added, next_id, stage, caller>>

NextEnum ==
    \/ \E n \in PhaseNames : AddPhase(n)
    \/ \E n \in JobNames, p \in PhaseNames :
          next_id <= MaxEnumJobs /\ AddJob(n, p)
    \/ \E g \in SeqsUpTo(GroupValues, MaxGroups), r \in BOOLEAN :
          gen.state = "none" /\ NewStage(g, r)
    \/ EnumCreate
    \/ EnumNext

SpecEnum == Init /\ [][NextEnum]_vars

\* ---- C18 ----------------------------------------------------------------
\* the jobs yielded for pair k, in the order yielded
RECURSIVE YieldedFor(_, _)
YieldedFor(out, k) ==
    IF out = <<>> THEN <<>>
    ELSE (IF Head(out).pair = k THEN <<Head(out).item[4]>> ELSE <<>>)
         \o YieldedFor(Tail(out), k)

\* C18: an add_job(j) for phase P that succeeds while the enumeration is
\* partially consumed shows in it: j is yielded for exactly the (group, P)
\* pairs whose job iteration had not finished when j was added; the pairs
\* are those of the phases declared when the first element was asked.
C18_EnumerationNotIsolated ==
    gen.state \in {"running", "done"}
        => /\ Len(gen.pairs) = Len(stage.order_groups) * Len(gen.phases_then)
           /\ \A k \in 1..Len(gen.pairs) :
                 /\ Contains(gen.phases_then, gen.pairs[k][2])
                 /\ \E g \in 1..Len(stage.order_groups) :
                       gen.pairs[k][1] = stage.order_groups[g]
           /\ Len(gen.closed) = gen.k - 1
           /\ gen.state = "done" => gen.k = Len(gen.pairs) + 1
           /\ \A n \in 1..Len(gen.out) :
                 /\ gen.out[n].pair \in 1..Len(gen.pairs)
                 /\ gen.out[n].item
                       = <<gen.pairs[gen.out[n].pair][1],
                           gen.pairs[gen.out[n].pair][2],
                           gen.pairs[gen.out[n].pair][3],
                           gen.out[n].item[4]>>
                 /\ \A m \in 1..(n - 1) : gen.out[m].pair <= gen.out[n].pair
           /\ \A k \in 1..Len(gen.closed) :
                 LET y == YieldedFor(gen.out, k)
                 IN  /\ Range(y) = {j \in added :
                                      /\ j.phase = gen.pairs[k][2]
                                      /\ j.id < gen.closed[k]}
                     /\ \A a, b \in 1..Len(y) : a < b => y[a].id < y[b].id

\* the enumeration is over; a job added while it ran was yielded for a
\* later ordering group and not for an earlier one
C18_Witness ==
    /\ gen.state = "done"
    /\ \E j \in added, k1, k2 \in 1..Len(gen.pairs) :
          /\ k1 < k2
          /\ gen.pairs[k1][2] = j.phase
          /\ gen.pairs[k2][2] = j.phase
          /\ j \notin Range(YieldedFor(gen.out, k1))
          /\ j \in Range(YieldedFor(gen.out, k2))

\* ---- the caller's order_groups list -------------------------------------
\* sorted() sorts the caller's list in place
stage_init_caller_list_sorted(order_groups, reverse) ==
    sorted(order_groups, reverse)

\* the caller's list after Stage(pipeline, order_groups, reverse): sorted()
\* builds a new list and leaves its argument as it is
stage_init_caller_list(order_groups, reverse) == order_groups

\* the Stage holds the caller's list itself
caller_write_stage_aliased(st, order_groups) ==
    [st EXCEPT !.order_groups = order_groups]

\* the Stage after the caller has changed its own list: _order_groups is
\* the list sorted() built, which the caller has no reference to
caller_write_stage(st, order_groups) == st

\* order_groups.append(group) by the caller, before or after it built the
\* Stage
CallerAppend(group) ==
    /\ Len(caller.groups) < MaxGroups
    /\ caller' = [caller EXCEPT !.groups = Append(@, group)]
    /\ stage' = caller_write_stage(stage, Append(caller.groups, group))
    /\ last' = Result("caller_append", "", NoJob, "None", <<>>)
    /\ UNCHANGED <<phases, job_name_cache, job_phase, added, next_id, gen>>

\* Stage(pipeline, caller's list, reverse), once in a behaviour;
\* caller.phases_then notes how many phases were declared at that moment
NewStageOfCaller(reverse) ==
    /\ ~stage.made
    /\ stage' = Stage(caller.groups, reverse)
    /\ caller' = [groups |-> stage_init_caller_list(caller.groups, reverse),
                  phases_then |-> Len(phases)]
    /\ last' = Result("new_stage", "", NoJob, "None", <<>>)
    /\ UNCHANGED <<phases, job_name_cache, job_phase, added, next_id, gen>>

NextView ==
    \/ \E n \in PhaseNames : AddPhase(n)
    \/ \E n \in JobNames, p \in PhaseNames :
          next_id <= MaxEnumJobs /\ AddJob(n, p)
    \/ \E g \in GroupValues : CallerAppend(g)
    \/ \E r \in BOOLEAN : NewStageOfCaller(r)
    \/ GetStages
    \/ GetStageJobs

SpecView == Init /\ [][NextView]_vars

\* ---- what is registered -------------------------------------------------
\* the pipeline's own state (without the ghost record of the last call)
pipeline_state == <<phases, job_phase, job_name_cache>>

\* every (entry, position) at which _job_phase stores a job
StoredAt == {<<i, k>> \in (1..Len(job_phase)) \X (1..MaxJobObjects + 1) :
                k <= Len(job_phase[i].jobs)}

\* ---- C1 -----------------------------------------------------------------
\* C1: add_phase(name) with a name already in the declared phase list fails
\* with DuplicatePhaseException, however many other phases are declared.
C1_DuplicatePhaseKind ==
    [][(last'.op = "add_phase" /\ Contains(phases, last'.phase))
        => last'.err = "DuplicatePhaseException"]_vars

\* ---- C2 -----------------------------------------------------------------
\* C2 as stated: add_job of a job whose phase is not declared fails with
\* InvalidPhaseException whatever the job's name is.
C2_InvalidPhaseAnyName ==
    [][(last'.op = "add_job" /\ ~Contains(phases, last'.job.phase))
        => last'.err = "InvalidPhaseException"]_vars

\* C2 (amended): add_job of a job whose phase is not declared and whose name
\* is not registered fails with InvalidPhaseException; with a registered
\* name it fails with JobException; in both cases nothing is stored, and a
\* later add_phase registers no job.
C2_InvalidPhase ==
    [][/\ (last'.op = "add_job" /\ ~Contains(phases, last'.job.phase))
            => /\ last'.err = (IF \E j \in added : j.name = last'.job.name
                               THEN "JobException"
                               ELSE "InvalidPhaseException")
               /\ UNCHANGED <<pipeline_state, added>>
       /\ last'.op = "add_phase"
            => /\ UNCHANGED <<job_phase, job_name_cache, added>>
               /\ get_jobs(job_phase') = get_jobs(job_phase)]_vars

\* a job with a fresh name was rejected for its undeclared phase while
\* another job is registered
C2_Witness ==
    /\ last.op = "add_job"
    /\ last.err = "InvalidPhaseException"
    /\ ~Contains(phases, last.job.phase)
    /\ added # {}
    /\ last.job \notin Range(get_jobs(job_phase))

\* ---- C3 -----------------------------------------------------------------
\* C3: once add_job(J1) succeeded, add_job(J2) with J2.name = J1.name fails
\* with JobException, for J2's phase the same declared phase as J1's or a
\* different declared one, whatever happened in between.
C3_DuplicateName ==
    [][(/\ last'.op = "add_job"
        /\ Contains(phases, last'.job.phase)
        /\ \E j1 \in added : j1.name = last'.job.name)
        => last'.err = "JobException"]_vars

\* J2 names a different declared phase than the registered J1
C3_Witness ==
    /\ last.op = "add_job"
    /\ last.err = "JobException"
    /\ Contains(phases, last.job.phase)
    /\ \E j1 \in added : /\ j1.name = last.job.name
                         /\ j1.phase # last.job.phase
                         /\ j1.id # last.job.id
\* ---- C4 -----------------------------------------------------------------
\* position of a declared phase in the declaration order
PhaseIndex(p) == CHOOSE i \in 1..Len(phases) : phases[i] = p

\* C4: get_jobs() yields all registered jobs grouped by phase in
\* phase-declaration order, and in add_job order within each phase, for
\* every order in which the add_job calls were made.
C4_GetJobsDeclarationOrder ==
    last.op = "get_jobs"
        => /\ Range(last.out) = added
           /\ \A i, j \in 1..Len(last.out) :
                i < j =>
                    \/ PhaseIndex(last.out[i].phase)
                          < PhaseIndex(last.out[j].phase)
                    \/ /\ last.out[i].phase = last.out[j].phase
                       /\ last.out[i].id < last.out[j].id

\* ---- C5 -----------------------------------------------------------------
\* C5: a fully consumed get_stages() or get_stage_jobs() leaves the phase
\* list, the phase-to-jobs mapping (its keys included) and the job-name set
\* as they were, also when a declared phase has no job.
C5_ExpansionReadOnly ==
    [][last'.op \in {"get_stages", "get_stage_jobs"}
        => UNCHANGED pipeline_state]_vars

\* ---- C6 -----------------------------------------------------------------
\* C6: in every reachable state no two jobs stored in the pipeline share a
\* name, under the same phase or under different phases.
C6_UniqueJobNames ==
    \A x, y \in StoredAt :
        x # y => job_phase[x[1]].jobs[x[2]].name
                    # job_phase[y[1]].jobs[y[2]].name

\* two jobs are stored under different phases after a duplicate name was
\* rejected
C6_Witness ==
    /\ Cardinality(StoredAt) >= 2
    /\ \E x, y \in StoredAt : x[1] # y[1]
    /\ last.op = "add_job"
    /\ last.err = "JobException"

\* ---- C7 -----------------------------------------------------------------
\* C7: every registered job is stored under exactly one phase key, the key
\* is the job's phase, and that phase is declared.
C7_ReferentialIntegrity ==
    /\ \A x \in StoredAt :
          LET job == job_phase[x[1]].jobs[x[2]]
          IN  /\ job \in added
              /\ job_phase[x[1]].key = job.phase
              /\ Contains(phases, job.phase)
    /\ \A job \in added :
          Cardinality({x \in StoredAt :
                          job_phase[x[1]].jobs[x[2]] = job}) = 1
    /\ \A i, j \in 1..Len(job_phase) :
          i # j => job_phase[i].key # job_phase[j].key

\* the last add_job stored a job, and jobs are stored under two phases
C7_Witness ==
    /\ Cardinality(added) >= 2
    /\ \E j1, j2 \in added : j1.phase # j2.phase
    /\ last.op = "add_job"
    /\ last.err = "None"
    /\ last.job \in added

\* ---- C8 -----------------------------------------------------------------
\* get_jobs_by_phase(p) for p = phs[1], phs[2], ... in turn, concatenated
RECURSIVE jobs_by_declared_phase(_, _)
jobs_by_declared_phase(phs, d) ==
    IF phs = <<>> THEN <<>>
    ELSE get_jobs_by_phase(d, Head(phs))
         \o jobs_by_declared_phase(Tail(phs),
                                   get_jobs_by_phase_effect(d, Head(phs)))

\* C8: get_jobs() yields each successfully added job exactly once and no
\* other job; so does the concatenation of get_jobs_by_phase(p) over the
\* declared phases; a job whose add_job failed is yielded by neither.
C8_ExactlyTheAddedJobs ==
    LET all == get_jobs(job_phase)
        by_phase == jobs_by_declared_phase(phases, job_phase)
    IN  /\ NoDuplicates(all)
        /\ Range(all) = added
        /\ NoDuplicates(by_phase)
        /\ Range(by_phase) = added
        /\ (last.op = "add_job" /\ last.err # "None")
              => /\ last.job \notin Range(all)
                 /\ last.job \notin Range(by_phase)
        /\ last.op = "get_jobs"
              => (NoDuplicates(last.out) /\ Range(last.out) = added)

\* get_jobs() ran with jobs under two phases and a rejected job behind it
C8_Witness ==
    /\ last.op = "get_jobs"
    /\ Len(last.out) >= 2
    /\ \E i, j \in 1..Len(last.out) : last.out[i].phase # last.out[j].phase
    /\ Cardinality(added) < next_id - 1
\* ---- C9 -----------------------------------------------------------------
Count(s, v) == Cardinality({i \in 1..Len(s) : s[i] = v})

\* s holds the elements of t, ascending, or descending when reverse
IsSortedCopy(s, t, reverse) ==
    /\ Len(s) = Len(t)
    /\ \A v \in Range(s) \cup Range(t) : Count(s, v) = Count(t, v)
    /\ \A i, j \in 1..Len(s) :
          i < j => IF reverse THEN s[i] >= s[j] ELSE s[i] <= s[j]

\* C9: for N ordering groups and M declared phases get_stages() yields
\* exactly N*M names "<group>-<phase>", the groups in sorted order (descending
\* when reverse) as the outer loop and the phases in declaration order as
\* the inner loop; nothing when N = 0 or M = 0.
C9_GetStagesProduct ==
    last.op = "get_stages"
        => LET N == Len(stage.given)
               M == Len(phases)
               s == stage.order_groups
           IN  /\ last.err = "None"
               /\ IsSortedCopy(s, stage.given, stage.reverse)
               /\ Len(last.out) = N * M
               /\ \A i \in 1..N, j \in 1..M :
                     last.out[(i - 1) * M + j]
                        = ToString(s[i]) \o "-" \o phases[j]

\* the example: phases [partition, changebroker] and groups [1, 0]
C9_Witness ==
    /\ last.op = "get_stages"
    /\ phases = <<"partition", "changebroker">>
    /\ stage.given = <<1, 0>>
    /\ ~stage.reverse
    /\ last.out = <<"0-partition", "0-changebroker",
                    "1-partition", "1-changebroker">>

\* ---- C10 ----------------------------------------------------------------
\* position of a registered job among all registered jobs, phases in
\* declaration order and add_job order within a phase
JobRank(job) ==
    1 + Cardinality({k \in added :
            \/ PhaseIndex(k.phase) < PhaseIndex(job.phase)
            \/ k.phase = job.phase /\ k.id < job.id})

\* C10: get_stage_jobs() yields, for every (group, phase) pair in the order
\* of get_stages(), one tuple (group, phase, stage name, job) per job of that
\* phase in insertion order: N times the number of registered jobs in all,
\* and none for a phase without jobs.
C10_GetStageJobs ==
    last.op = "get_stage_jobs"
        => LET N == Len(stage.order_groups)
               J == Cardinality(added)
               s == stage.order_groups
           IN  /\ last.err = "None"
               /\ Len(last.out) = N * J
               /\ \A i \in 1..N, job \in added :
                     last.out[(i - 1) * J + JobRank(job)]
                        = <<s[i], job.phase,
                            ToString(s[i]) \o "-" \o job.phase, job>>

\* two groups, two phases of which one has no job, two jobs in the other
C10_Witness ==
    /\ last.op = "get_stage_jobs"
    /\ Len(stage.order_groups) = 2
    /\ Len(phases) = 2
    /\ Cardinality(added) = 2
    /\ \A j1, j2 \in added : j1.phase = j2.phase
    /\ Len(last.out) = 4
\* ---- C11 ----------------------------------------------------------------
\* C11: add_phase of a name not yet declared succeeds and puts the name at
\* the end of the phase list, nothing else changes the list, get_phases()
\* yields the list as it is, and the list never holds a name twice.
C11_PhasesInInsertionOrder ==
    [][/\ (last'.op = "add_phase" /\ ~Contains(phases, last'.phase))
            => /\ last'.err = "None"
               /\ phases' = Append(phases, last'.phase)
       /\ ~(last'.op = "add_phase" /\ ~Contains(phases, last'.phase))
            => phases' = phases
       /\ last'.op = "get_phases"
            => (last'.err = "None" /\ last'.out = phases')
       /\ NoDuplicates(phases')]_vars

\* get_phases() after two add_phase calls, changebroker declared first
C11_Witness ==
    /\ last.op = "get_phases"
    /\ last.out = <<"changebroker", "partition">>

\* ---- C13 ----------------------------------------------------------------
\* C13: get_stages(), or get_stage_jobs(), called again on the same Stage
\* with no add_phase or add_job in between yields what the call before it
\* yielded (get_stage_jobs() leaves new keys in _job_phase behind).
C13_Restartable ==
    /\ last.op = "get_stages" => get_stages(stage, phases) = last.out
    /\ last.op = "get_stage_jobs"
          => get_stage_jobs(stage, phases, job_phase) = last.out

\* get_stage_jobs() yielded tuples and left the key of a phase without a
\* job behind
C13_Witness ==
    /\ last.op = "get_stage_jobs"
    /\ Len(last.out) >= 2
    /\ \E i \in 1..Len(job_phase) : job_phase[i].jobs = <<>>

\* ---- C14 ----------------------------------------------------------------
\* C14: get_jobs_by_phase(p) yields the jobs registered under p in insertion
\* order, and yields nothing, without raising, when p has no job or was
\* never declared.
C14_GetJobsByPhase ==
    last.op = "get_jobs_by_phase"
        => /\ last.err = "None"
           /\ Range(last.out) = {j \in added : j.phase = last.phase}
           /\ \A i, j \in 1..Len(last.out) :
                 i < j => last.out[i].id < last.out[j].id

\* the phase asked for was never declared, another phase has a job
C14_Witness ==
    /\ last.op = "get_jobs_by_phase"
    /\ ~Contains(phases, last.phase)
    /\ last.out = <<>>
    /\ added # {}

\* ---- C16 ----------------------------------------------------------------
\* C16: a failed add_phase or add_job leaves the phase list, the
\* phase-to-jobs mapping and the job-name set as they were; a job rejected
\* for its undeclared phase does not reserve its name, so add_job accepts
\* every job whose phase is declared and whose name no registered job has.
C16_FailedCallsChangeNothing ==
    [][/\ (last'.op \in {"add_phase", "add_job"} /\ last'.err # "None")
            => UNCHANGED <<pipeline_state, added>>
       /\ (last'.op = "add_job" /\ last'.err = "InvalidPhaseException")
            => last'.job.name \notin job_name_cache'
       /\ (/\ last'.op = "add_job"
           /\ Contains(phases, last'.job.phase)
           /\ \A j \in added : j.name # last'.job.name)
            => /\ last'.err = "None"
               /\ last'.job \in added'
               /\ last'.job \in Range(get_jobs(job_phase'))]_vars

\* a job was accepted after a job had been rejected, with no registered job
\* so far: the rejection was for an undeclared phase
C16_Witness ==
    /\ last.op = "add_job"
    /\ last.err = "None"
    /\ added = {last.job}
    /\ last.job.id >= 2
\* ---- C19 ----------------------------------------------------------------
\* C19: the Stage is a live view of its pipeline and a snapshot of its
\* ordering groups: an enumeration covers the phases and jobs the pipeline
\* has when it runs and the groups given at construction, whatever the
\* caller's list holds by then; construction leaves the caller's list as
\* it was.
C19_LiveViewOfPipelineSnapshotOfGroups ==
    /\ last.op = "new_stage" => caller.groups = stage.given
    /\ stage.made
          => IsSortedCopy(stage.order_groups, stage.given, stage.reverse)
    /\ last.op = "get_stages"
          => /\ Len(last.out) = Len(stage.given) * Len(phases)
             /\ \A i \in 1..Len(stage.given), j \in 1..Len(phases) :
                   last.out[(i - 1) * Len(phases) + j]
                      = stage_name(stage.order_groups[i], phases[j])
    /\ last.op = "get_stage_jobs"
          => /\ Len(last.out) = Len(stage.given) * Cardinality(added)
             /\ stage.given # <<>>
                   => {last.out[n][4] : n \in 1..Len(last.out)} = added

\* an enumeration that yields a job of a phase declared after the Stage was
\* built, while the caller's list is no longer the one given
C19_Witness ==
    /\ last.op = "get_stage_jobs"
    /\ caller.groups # stage.given
    /\ stage.given # <<>>
    /\ Len(phases) > caller.phases_then
    /\ \E n \in 1..Len(last.out) :
          PhaseIndex(last.out[n][2]) > caller.phases_then
====
